---- MODULE Spec2Model ----
(***************************************************************************)
(* Batch swap execution of the liquidity module: SwapExecution and         *)
(* UpdateState of x/liquidity/keeper/swap.go, driven by the block hooks    *)
(* (BeginBlocker / EndBlocker).  Decimals (sdk.Dec) are fixed-point        *)
(* integers counted in units of 1/DecUnit; coins (sdk.Int) are integers.   *)
(***************************************************************************)
EXTENDS Integers, Sequences, FiniteSets, TLC

\* ------------------------------------------------------------------ bounds
DecUnit == 4          \* fixed-point units per whole coin (the code: 10^18)
MaxOrders == 2        \* swap messages submitted over one behaviour
MaxAmt == 3           \* largest offer amount of one swap message
MaxHeight == 3        \* last block height explored
MaxOffer == 4         \* largest offer amount given to UpdateState on its own

\* --------------------------------------------------- decimals and coins
ToDec(i) == i * DecUnit
TruncateInt(d) == d \div DecUnit
Mul(a, b) == (a * b) \div DecUnit
Quo(a, b) == (a * DecUnit) \div b
OneDec == ToDec(1)
Min(a, b) == IF a <= b THEN a ELSE b
Max(a, b) == IF a >= b THEN a ELSE b
Abs(a) == IF a >= 0 THEN a ELSE 0 - a

\* types.CoinSafeSubAmount: subtraction of an amount, clamped at zero
CoinSafeSubAmount(coinAmt, amt) == IF coinAmt >= amt THEN coinAmt - amt ELSE 0

\* half of the swap fee rate (charged on the offer coin), as a decimal
HalfFeeRate == DecUnit \div 2

DirectionXtoY == "XtoY"
DirectionYtoX == "YtoX"

\* match types, in the order the batch result lists them
NoMatch == 0
ExactMatch == 1
FractionalMatchX == 2
FractionalMatchY == 3

\* limit prices a user may submit and reserves a pool may start with
OrderPrices == {DecUnit \div 2, 2 * DecUnit}
OfferAmounts == {1, MaxAmt}
InitReserves == {<<2, 4>>, <<5, 4>>}

VARIABLES
    height,        \* ctx.BlockHeight()
    phase,         \* "begin" (begin-block hook due), "open" (messages accepted), "halt" (panic)
    poolExists,    \* k.GetPool finds the batch's pool
    reserveX,      \* reserve coin amounts of the pool (escrow)
    reserveY,
    orders,        \* the stored SwapMsgStates of the pool batch, by msg_index
    nextIndex,     \* next msg_index of the batch
    batchIndex,    \* PoolBatch.Index
    batchExecuted, \* PoolBatch.Executed
    last           \* outcome of the latest SwapExecution (return value, match, settlement)

vars == <<height, phase, poolExists, reserveX, reserveY, orders, nextIndex,
          batchIndex, batchExecuted, last>>

\* a SwapMsgState as the message handler stores it
NewSwapMsgState(idx, dir, amt, price, expiry) ==
    [idx |-> idx, dir |-> dir, offer |-> amt, price |-> price,
     remaining |-> amt, exchanged |-> 0,
     fee |-> TruncateInt(Mul(ToDec(amt), HalfFeeRate)),
     expiry |-> expiry,
     executed |-> FALSE, succeeded |-> FALSE, toBeDeleted |-> FALSE]

\* ------------------------------------------------------------ sequences
Range(l) == {l[i] : i \in 1..Len(l)}

\* the orders of a list as a map from msg_index to state (the pointers the
\* code shares between swapMsgStates, XtoY, YtoX and MatchResult.BatchMsg)
ByIndex(l) == [i \in {o.idx : o \in Range(l)} |-> CHOOSE o \in Range(l) : o.idx = i]

RECURSIVE IdxOf(_)
IdxOf(l) == IF l = <<>> THEN <<>> ELSE <<Head(l).idx>> \o IdxOf(Tail(l))

RECURSIVE IdxOfDir(_, _)
\* msg indexes of the orders of list l that offer in direction dir, in list order
IdxOfDir(l, dir) ==
    IF l = <<>> THEN <<>>
    ELSE (IF Head(l).dir = dir THEN <<Head(l).idx>> ELSE <<>>) \o IdxOfDir(Tail(l), dir)

\* price priority of a direction: XtoY highest order price first, YtoX lowest first
PriceBefore(dir, p, q) == IF dir = DirectionXtoY THEN p > q ELSE p < q

RECURSIVE InsertStable(_, _, _, _)
\* insert msg index x behind every index that does not come strictly after it
InsertStable(x, l, ms, dir) ==
    IF l = <<>> THEN <<x>>
    ELSE IF PriceBefore(dir, ms[x].price, ms[Head(l)].price) THEN <<x>> \o l
    ELSE <<Head(l)>> \o InsertStable(x, Tail(l), ms, dir)

RECURSIVE SortStable(_, _, _)
\* sort.SliceStable by order price: equal prices keep their order
SortStable(l, ms, dir) ==
    IF l = <<>> THEN <<>>
    ELSE InsertStable(l[Len(l)], SortStable(SubSeq(l, 1, Len(l) - 1), ms, dir), ms, dir)

RECURSIVE SumRemaining(_, _, _, _)
\* total remaining offer (a decimal) of the orders of list l in limit at price p
SumRemaining(l, ms, dir, p) ==
    IF l = <<>> THEN 0
    ELSE (IF (dir = DirectionXtoY /\ ms[Head(l)].price >= p)
             \/ (dir = DirectionYtoX /\ ms[Head(l)].price <= p)
          THEN ToDec(ms[Head(l)].remaining) ELSE 0)
         + SumRemaining(Tail(l), ms, dir, p)

\* ------------------------------------------------- order book and match
InLimit(dir, orderPrice, p) ==
    IF dir = DirectionXtoY THEN orderPrice >= p ELSE orderPrice <= p

\* an order the batch has not matched and that stays in the book
NotMatched(o) == ~o.succeeded /\ ~o.toBeDeleted /\ o.remaining > 0

\* types.MakeOrderMap: the orders split by direction (XtoY offers the x coin).
\* With onlyNotMatched the book keeps only the orders that were not matched.
MakeOrderMap(l, onlyNotMatched) ==
    [XtoY |-> IdxOfDir(SelectSeq(l, LAMBDA o : ~onlyNotMatched \/ NotMatched(o)), DirectionXtoY),
     YtoX |-> IdxOfDir(SelectSeq(l, LAMBDA o : ~onlyNotMatched \/ NotMatched(o)), DirectionYtoX),
     prices |-> {o.price : o \in {q \in Range(l) : ~onlyNotMatched \/ NotMatched(q)}}]

\* executed volumes at candidate price p >= P0: the pool takes up to capX of x
VolumesUp(p, ex, ey, demandX) ==
    [SwapPrice |-> p, ex |-> ex, ey |-> ey,
     EX |-> IF ex <= demandX THEN ex ELSE demandX,
     EY |-> IF ex <= demandX THEN Min(ey, Quo(ex, p)) ELSE ey]

\* executed volumes at candidate price p < P0: the pool takes up to capY of y
VolumesDown(p, ex, ey, demandY) ==
    [SwapPrice |-> p, ex |-> ex, ey |-> ey,
     EX |-> IF ey <= demandY THEN Min(ex, Mul(ey, p)) ELSE ex,
     EY |-> IF ey <= demandY THEN ey ELSE demandY]

\* the pool trades at p until its own price X'/Y' reaches p
PoolCapX(X, Y, p) == Max(0, (Mul(p, Y) - X) \div 2)
PoolCapY(X, Y, p) == Max(0, (Quo(X, p) - Y) \div 2)

\* executable volumes and pool absorption at one candidate price p
MatchAt(X, Y, P0, p, ex, ey) ==
    IF p >= P0
    THEN VolumesUp(p, ex, ey, Mul(ey, p) + PoolCapX(X, Y, p))
    ELSE VolumesDown(p, ex, ey, Quo(ex, p) + PoolCapY(X, Y, p))

Volume(a) == a.EX + Mul(a.EY, a.SwapPrice)

\* a beats b: more matched volume, then closer to the pool price, then lower
BetterMatch(a, b, P0) ==
    \/ Volume(a) > Volume(b)
    \/ /\ Volume(a) = Volume(b)
       /\ \/ Abs(a.SwapPrice - P0) < Abs(b.SwapPrice - P0)
          \/ /\ Abs(a.SwapPrice - P0) = Abs(b.SwapPrice - P0)
             /\ a.SwapPrice < b.SwapPrice

BestMatch(cands, P0) == CHOOSE a \in cands : \A b \in cands \ {a} : BetterMatch(a, b, P0)

\* the batch result of the chosen candidate
BatchResult(best) ==
    [MatchType |-> IF Volume(best) = 0 THEN NoMatch
                   ELSE IF best.EX < best.ex THEN FractionalMatchX
                   ELSE IF best.EY < best.ey THEN FractionalMatchY
                   ELSE ExactMatch,
     SwapPrice |-> best.SwapPrice, EX |-> best.EX, EY |-> best.EY,
     PoolXDelta |-> best.EX - Mul(best.EY, best.SwapPrice),
     PoolYDelta |-> best.EY - Quo(best.EX, best.SwapPrice)]

\* OrderBook.Match: price discovery over the pool price and the limit prices
Match(X, Y, book, ms) ==
    BatchResult(BestMatch(
        {MatchAt(X, Y, Quo(X, Y), p,
                 SumRemaining(book.XtoY, ms, DirectionXtoY, p),
                 SumRemaining(book.YtoX, ms, DirectionYtoX, p)) :
            p \in {Quo(X, Y)} \cup book.prices},
        Quo(X, Y)))

\* OrderBook.Validate: no order of the book is in limit beyond the last price
ValidateOrderBook(book, ms, lastPrice) ==
    /\ \A i \in Range(book.XtoY) : ms[i].price <= lastPrice
    /\ \A i \in Range(book.YtoX) : ms[i].price >= lastPrice

\* the match result of order o for the transacted amount T
MatchResult(o, dir, swapPrice, T, full) ==
    [idx |-> o.idx, dir |-> dir, orderPrice |-> o.price, swapPrice |-> swapPrice,
     TransactedCoinAmt |-> T,
     ExchangedDemandCoinAmt |->
         IF dir = DirectionXtoY THEN Quo(T, swapPrice) ELSE Mul(T, swapPrice),
     OfferCoinFeeAmt |-> Mul(T, HalfFeeRate),
     fractional |-> ~full]

RECURSIVE WalkOrders(_, _, _, _, _)
\* fills of the orders of the priority-sorted list l out of the executable amount E
WalkOrders(l, ms, dir, E, swapPrice) ==
    IF l = <<>> THEN <<>>
    ELSE IF ~InLimit(dir, ms[Head(l)].price, swapPrice)
    THEN WalkOrders(Tail(l), ms, dir, E, swapPrice)
    ELSE IF ToDec(ms[Head(l)].remaining) <= E
    THEN <<MatchResult(ms[Head(l)], dir, swapPrice, ToDec(ms[Head(l)].remaining), TRUE)>>
         \o WalkOrders(Tail(l), ms, dir, E - ToDec(ms[Head(l)].remaining), swapPrice)
    ELSE <<MatchResult(ms[Head(l)], dir, swapPrice, E, FALSE)>>
         \o WalkOrders(Tail(l), ms, dir, 0, swapPrice)

RECURSIVE InsertByIndex(_, _)
InsertByIndex(x, l) ==
    IF l = <<>> THEN <<x>>
    ELSE IF x < Head(l) THEN <<x>> \o l
    ELSE <<Head(l)>> \o InsertByIndex(x, Tail(l))

RECURSIVE SortByIndex(_)
\* the msg indices of l in ascending order: the tie-break within a price
SortByIndex(l) == IF l = <<>> THEN <<>> ELSE InsertByIndex(Head(l), SortByIndex(Tail(l)))

\* types.FindOrderMatch: the match results of one direction, the orders walked
\* by price priority and, within a price, by msg index
FindOrderMatch(dir, l, ms, E, swapPrice) ==
    WalkOrders(SortStable(SortByIndex(l), ms, dir), ms, dir, E, swapPrice)

\* ------------------------------------------------------------ UpdateState
\* the full-match test of a match result against its order
IsFullMatch(o, match) ==
    \/ ToDec(o.offer) = match.TransactedCoinAmt
    \/ ToDec(o.remaining) = match.TransactedCoinAmt

\* the off-by-one test: one whole coin is left over by decimal error
IsOffByOne(o, match) ==
    \/ ToDec(o.offer) - match.TransactedCoinAmt = OneDec
    \/ ToDec(o.remaining) - match.TransactedCoinAmt = OneDec

\* the exchanged amount grows but the remaining amount is not reduced
ApplyAmounts_KeepRemaining(o, match) ==
    [o EXCEPT !.exchanged = o.exchanged + TruncateInt(match.TransactedCoinAmt),
              !.fee = CoinSafeSubAmount(o.fee, TruncateInt(match.OfferCoinFeeAmt))]

\* the amounts subtracted without the clamp at zero
ApplyAmounts_PlainSub(o, match) ==
    [o EXCEPT !.exchanged = o.exchanged + TruncateInt(match.TransactedCoinAmt),
              !.remaining = o.remaining - TruncateInt(match.TransactedCoinAmt),
              !.fee = o.fee - TruncateInt(match.OfferCoinFeeAmt)]

\* the three amounts every branch updates
ApplyAmounts(o, match) ==
    [o EXCEPT !.exchanged = o.exchanged + TruncateInt(match.TransactedCoinAmt),
              !.remaining = CoinSafeSubAmount(o.remaining, TruncateInt(match.TransactedCoinAmt)),
              !.fee = CoinSafeSubAmount(o.fee, TruncateInt(match.OfferCoinFeeAmt))]

\* the off-by-one branch drops a remaining amount of exactly one coin
ClampOne(o) == IF o.remaining = 1 THEN [o EXCEPT !.remaining = 0] ELSE o

\* the check without its condition on the reserved fee
RemainingNotMatched_NoFee(o) ==
    \/ o.remaining + o.exchanged > o.offer
    \/ o.remaining # 0

\* the condition under which the full and off-by-one branches panic
RemainingNotMatched(o) ==
    \/ o.remaining + o.exchanged > o.offer
    \/ o.remaining # 0
    \/ o.fee >= 2

\* the full and off-by-one branches: panic, or succeeded and to be deleted
SettleFull(o1, branch) ==
    [branch |-> branch, panic |-> RemainingNotMatched(o1),
     order |-> [o1 EXCEPT !.succeeded = TRUE, !.toBeDeleted = TRUE]]

\* the fractional branch marking its order to be deleted
SettleFractional_Deleted(o1) ==
    [branch |-> "fractional", panic |-> FALSE,
     order |-> [o1 EXCEPT !.succeeded = TRUE, !.toBeDeleted = TRUE]]

\* the fractional branch: succeeded, kept for the next batch
SettleFractional(o1) ==
    [branch |-> "fractional", panic |-> FALSE,
     order |-> [o1 EXCEPT !.succeeded = TRUE, !.toBeDeleted = FALSE]]

\* one iteration of either loop: the order after the match result, the branch
\* taken ("full", "offbyone", "fractional") and whether the branch panicked
SettleMatch(o, match) ==
    IF IsFullMatch(o, match) THEN SettleFull(ApplyAmounts(o, match), "full")
    ELSE IF IsOffByOne(o, match) THEN SettleFull(ClampOne(ApplyAmounts(o, match)), "offbyone")
    ELSE SettleFractional(ApplyAmounts(o, match))

\* panic("remaining not matched 1") .. panic("remaining not matched 4")
PanicMessage(dir, branch) ==
    IF dir = DirectionXtoY
    THEN (IF branch = "full" THEN "remaining not matched 1" ELSE "remaining not matched 2")
    ELSE (IF branch = "full" THEN "remaining not matched 3" ELSE "remaining not matched 4")

\* the transacted coins leave the pool instead of entering it
DeltaX_Subtracted(dir, match) ==
    IF dir = DirectionXtoY THEN 0 - match.TransactedCoinAmt ELSE 0 - match.ExchangedDemandCoinAmt

\* pool deltas a match result of direction dir adds
DeltaX(dir, match) ==
    IF dir = DirectionXtoY THEN match.TransactedCoinAmt ELSE 0 - match.ExchangedDemandCoinAmt
DeltaY(dir, match) ==
    IF dir = DirectionXtoY THEN 0 - match.ExchangedDemandCoinAmt ELSE match.TransactedCoinAmt

\* no decimal error accumulated
DecimalError_None(dir, side, branch) == 0

\* +1 on the offer side of an off-by-one match
DecimalError(dir, side, branch) == IF dir = side /\ branch = "offbyone" THEN OneDec ELSE 0

\* the pool deltas overwritten by each match result instead of summed
Accumulate_Overwrite(st, match, dir, r) ==
    IF r.panic THEN [st EXCEPT !.panic = PanicMessage(dir, r.branch)]
    ELSE [st EXCEPT
            !.ms = [st.ms EXCEPT ![match.idx] = r.order],
            !.poolXdelta = DeltaX(dir, match),
            !.poolYdelta = DeltaY(dir, match),
            !.decimalErrorX = st.decimalErrorX + DecimalError(dir, DirectionXtoY, r.branch),
            !.decimalErrorY = st.decimalErrorY + DecimalError(dir, DirectionYtoX, r.branch),
            !.branches = Append(st.branches, [idx |-> match.idx, branch |-> r.branch])]

\* every other order of the batch marked succeeded along with the matched one
Accumulate_Sweep(st, match, dir, r) ==
    IF r.panic THEN [st EXCEPT !.panic = PanicMessage(dir, r.branch)]
    ELSE [st EXCEPT
            !.ms = [i \in DOMAIN st.ms |->
                        IF i = match.idx THEN r.order
                        ELSE [st.ms[i] EXCEPT !.succeeded = TRUE]],
            !.poolXdelta = st.poolXdelta + DeltaX(dir, match),
            !.poolYdelta = st.poolYdelta + DeltaY(dir, match),
            !.decimalErrorX = st.decimalErrorX + DecimalError(dir, DirectionXtoY, r.branch),
            !.decimalErrorY = st.decimalErrorY + DecimalError(dir, DirectionYtoX, r.branch),
            !.fractionalCntX = st.fractionalCntX
                + (IF dir = DirectionXtoY /\ r.branch = "fractional" THEN 1 ELSE 0),
            !.fractionalCntY = st.fractionalCntY
                + (IF dir = DirectionYtoX /\ r.branch = "fractional" THEN 1 ELSE 0),
            !.branches = Append(st.branches, [idx |-> match.idx, branch |-> r.branch])]

\* the loop variables after one match result was settled as r
Accumulate(st, match, dir, r) ==
    IF r.panic THEN [st EXCEPT !.panic = PanicMessage(dir, r.branch)]
    ELSE [st EXCEPT
            !.ms = [st.ms EXCEPT ![match.idx] = r.order],
            !.poolXdelta = st.poolXdelta + DeltaX(dir, match),
            !.poolYdelta = st.poolYdelta + DeltaY(dir, match),
            !.decimalErrorX = st.decimalErrorX + DecimalError(dir, DirectionXtoY, r.branch),
            !.decimalErrorY = st.decimalErrorY + DecimalError(dir, DirectionYtoX, r.branch),
            !.fractionalCntX = st.fractionalCntX
                + (IF dir = DirectionXtoY /\ r.branch = "fractional" THEN 1 ELSE 0),
            !.fractionalCntY = st.fractionalCntY
                + (IF dir = DirectionYtoX /\ r.branch = "fractional" THEN 1 ELSE 0),
            !.branches = Append(st.branches, [idx |-> match.idx, branch |-> r.branch])]

RECURSIVE SettleLoop(_, _, _)
\* `for _, match := range matchResult...`: st accumulates the loop's variables
SettleLoop(st, results, dir) ==
    IF results = <<>> \/ st.panic # "" THEN st
    ELSE SettleLoop(
            Accumulate(st, Head(results), dir, SettleMatch(st.ms[Head(results).idx], Head(results))),
            Tail(results), dir)

LoopStart(ms) ==
    [ms |-> ms, poolXdelta |-> 0, poolYdelta |-> 0,
     fractionalCntX |-> 0, fractionalCntY |-> 0,
     decimalErrorX |-> 0, decimalErrorY |-> 0,
     branches |-> <<>>, panic |-> ""]

\* the Y delta returned without the accumulated decimal error
OffsetY_NoError(st) == st.poolYdelta

\* the accumulated decimal errors are added to the pool deltas
OffsetX(st) == st.poolXdelta + st.decimalErrorX
OffsetY(st) == st.poolYdelta + st.decimalErrorY

\* what UpdateState returns once both loops have run
UpdateReturn(X, Y, XtoY, YtoX, st) ==
    [XtoY |-> XtoY, YtoX |-> YtoX,
     ms |-> st.ms, X |-> X + OffsetX(st), Y |-> Y + OffsetY(st),
     poolXdelta |-> OffsetX(st), poolYdelta |-> OffsetY(st),
     fractionalCntX |-> st.fractionalCntX, fractionalCntY |-> st.fractionalCntY,
     decimalErrorX |-> st.decimalErrorX, decimalErrorY |-> st.decimalErrorY,
     branches |-> st.branches, panic |-> st.panic]

\* Keeper.UpdateState
UpdateState(X, Y, XtoY, YtoX, ms, matchResultXtoY, matchResultYtoX) ==
    UpdateReturn(X, Y, SortStable(XtoY, ms, DirectionXtoY), SortStable(YtoX, ms, DirectionYtoX),
        SettleLoop(SettleLoop(LoopStart(ms), matchResultXtoY, DirectionXtoY),
                   matchResultYtoX, DirectionYtoX))

\* ---------------------------------------------------------- SwapExecution
\* k.GetAllNotProcessedPoolBatchSwapMsgStates: not executed, not succeeded,
\* not to be deleted
GetAllNotProcessedPoolBatchSwapMsgStates(store) ==
    SelectSeq(store, LAMBDA o : ~o.executed /\ ~o.succeeded /\ ~o.toBeDeleted)

\* types.ValidateStateAndExpireOrders: with expireThisHeight, orders whose
\* expiry height is reached are marked to be deleted
ValidateStateAndExpireOrders(ms, currentHeight, expireThisHeight) ==
    [i \in DOMAIN ms |->
        IF expireThisHeight /\ ms[i].expiry <= currentHeight
        THEN [ms[i] EXCEPT !.toBeDeleted = TRUE] ELSE ms[i]]

\* the current pool price in place of the swap price
MatchPrice_PoolPrice(result, currentPoolPrice) == currentPoolPrice

\* the price each FindOrderMatch call is given
MatchPriceXtoY(result, currentPoolPrice) == result.SwapPrice
MatchPriceYtoX(result, currentPoolPrice) == result.SwapPrice

\* the match results taken as they are, without looking for a repeated index
HasDuplicate_Unchecked(results) == FALSE

\* `for _, msg := range append(matchResultXtoY, matchResultYtoX...)`: a msg
\* index that is already in matchResultMap panics
HasDuplicate(results) ==
    \E i, j \in 1..Len(results) : i # j /\ results[i].idx = results[j].idx

\* the orders of list l as they are in ms
Stored(l, ms) == [k \in 1..Len(l) |-> IF l[k].idx \in DOMAIN ms THEN ms[l[k].idx] ELSE l[k]]

\* k.TransactAndRefundSwapLiquidityPool: the bank moves the coins or fails as
\* a whole; on success the order states are stored and the deltas applied to
\* the reserves
TransactAndRefundSwapLiquidityPool(store, ms, us, bankOk) ==
    IF ~bankOk
    THEN [err |-> "bank transfer failed", store |-> store, reserveX |-> 0, reserveY |-> 0]
    ELSE [err |-> "", store |-> Stored(store, ms),
          reserveX |-> TruncateInt(us.X), reserveY |-> TruncateInt(us.Y)]

NoResult ==
    [MatchType |-> NoMatch, SwapPrice |-> 0, EX |-> 0, EY |-> 0,
     PoolXDelta |-> 0, PoolYDelta |-> 0]

NoUpdate == UpdateReturn(0, 0, <<>>, <<>>, LoopStart(<<>>))

\* the record of an execution that did nothing
NoExecution(store, rx, ry) ==
    [kind |-> "empty", count |-> 0, err |-> "", panic |-> "",
     store |-> store, reserveX |-> rx, reserveY |-> ry,
     pre |-> <<>>, X |-> 0, Y |-> 0, currentPoolPrice |-> 0, result |-> NoResult,
     matchResultXtoY |-> <<>>, matchResultYtoX |-> <<>>,
     us |-> NoUpdate, post |-> <<>>, lastPrice |-> 0, transferErr |-> ""]

\* the transfer error returned to the caller instead of a panic
TransferStep_ReturnErr(store, settled, tr) ==
    [settled EXCEPT !.err = tr.err, !.transferErr = tr.err]

\* lines 105-110: the coins are moved, or the execution panics
TransferStep(store, settled, tr) ==
    IF tr.err # ""
    THEN [settled EXCEPT !.kind = "panic", !.panic = tr.err, !.count = 0,
                         !.transferErr = tr.err]
    ELSE [settled EXCEPT !.store = tr.store, !.reserveX = tr.reserveX,
                         !.reserveY = tr.reserveY]

\* the order book taken as valid without looking at it
OrderBookInvalid_Ignored(book, ms, lastPrice) == FALSE

\* `if !orderBookExecuted.Validate(lastPrice)`
OrderBookInvalid(book, ms, lastPrice) == ~ValidateOrderBook(book, ms, lastPrice)

\* lines 72-103: the checks between UpdateState and the transfer
CheckStep(store, settled, ms2, orderBookExecuted, bankOk) ==
    IF settled.us.panic # ""
    THEN [settled EXCEPT !.kind = "panic", !.panic = settled.us.panic, !.count = 0]
    ELSE IF settled.us.Y <= 0
    THEN [settled EXCEPT !.kind = "panic", !.panic = "division by zero", !.count = 0]
    ELSE IF OrderBookInvalid(orderBookExecuted, ms2, settled.lastPrice)
    THEN [settled EXCEPT !.kind = "panic", !.panic = "ErrOrderBookInvalidity", !.count = 0]
    ELSE IF HasDuplicate(settled.matchResultXtoY \o settled.matchResultYtoX)
    THEN [settled EXCEPT !.kind = "panic", !.panic = "duplicated match order", !.count = 0]
    ELSE TransferStep(store, settled,
            TransactAndRefundSwapLiquidityPool(store, settled.post, settled.us, bankOk))

\* lines 69-89: the order states after UpdateState, expired orders marked
SettleStep(store, swapMsgStates, base, us, currentHeight, bankOk) ==
    CheckStep(store,
        [base EXCEPT !.kind = "settled", !.store = store, !.us = us,
                     !.post = ValidateStateAndExpireOrders(us.ms, currentHeight, TRUE),
                     !.lastPrice = IF us.Y > 0 THEN Quo(us.X, us.Y) ELSE 0],
        ValidateStateAndExpireOrders(us.ms, currentHeight, FALSE),
        MakeOrderMap(Stored(swapMsgStates,
                            ValidateStateAndExpireOrders(us.ms, currentHeight, FALSE)), TRUE),
        bankOk)

\* the execution going on to settle a batch that has no match
CountStep_NoReturn(store, swapMsgStates, book, base, currentHeight, bankOk) ==
    SettleStep(store, swapMsgStates, base,
        UpdateState(base.X, base.Y, book.XtoY, book.YtoX, base.pre,
                    base.matchResultXtoY, base.matchResultYtoX),
        currentHeight, bankOk)

\* lines 63-70: without a match the count is returned, otherwise the state is updated
CountStep(store, swapMsgStates, book, base, currentHeight, bankOk) ==
    IF base.result.MatchType = 0 THEN base
    ELSE SettleStep(store, swapMsgStates, base,
            UpdateState(base.X, base.Y, book.XtoY, book.YtoX, base.pre,
                        base.matchResultXtoY, base.matchResultYtoX),
            currentHeight, bankOk)

\* lines 49-61: the match results of both directions at the swap price
FindStep(store, swapMsgStates, ms1, book, X, Y, result, currentHeight, bankOk) ==
    CountStep(store, swapMsgStates, book,
        [NoExecution(Stored(store, ms1), TruncateInt(X), TruncateInt(Y)) EXCEPT
            !.kind = "nomatch", !.count = Len(swapMsgStates),
            !.pre = ms1, !.X = X, !.Y = Y,
            !.currentPoolPrice = Quo(X, Y), !.result = result,
            !.matchResultXtoY =
                IF result.MatchType # NoMatch
                THEN FindOrderMatch(DirectionXtoY, book.XtoY, ms1, result.EX,
                                    MatchPriceXtoY(result, Quo(X, Y)))
                ELSE <<>>,
            !.matchResultYtoX =
                IF result.MatchType # NoMatch
                THEN FindOrderMatch(DirectionYtoX, book.YtoX, ms1, result.EY,
                                    MatchPriceYtoX(result, Quo(X, Y)))
                ELSE <<>>],
        currentHeight, bankOk)

\* lines 33-47: reserves, order book and price discovery
MatchStep(store, swapMsgStates, ms1, book, X, Y, currentHeight, bankOk) ==
    FindStep(store, swapMsgStates, ms1, book, X, Y, Match(X, Y, book, ms1),
             currentHeight, bankOk)

\* lines 24-31: every collected message is stored as executed
ExecutedStep(store, swapMsgStates, ms1, currentHeight, rx, ry, bankOk) ==
    MatchStep(store, swapMsgStates, ms1, MakeOrderMap(Stored(swapMsgStates, ms1), FALSE),
              ToDec(rx), ToDec(ry), currentHeight, bankOk)

\* the collected messages left as they were
SetExecuted_Skip(ms) == ms

SetExecuted(ms) == [i \in DOMAIN ms |-> [ms[i] EXCEPT !.executed = TRUE]]

\* the collected messages stored as executed before the pool is looked up
PoolNotFound_Executed(store, rx, ry) ==
    [NoExecution([k \in 1..Len(store) |-> [store[k] EXCEPT !.executed = TRUE]], rx, ry)
        EXCEPT !.kind = "nopool", !.err = "ErrPoolNotExists"]

\* `if !found { return 0, types.ErrPoolNotExists }`
PoolNotFound(store, rx, ry) ==
    [NoExecution(store, rx, ry) EXCEPT !.kind = "nopool", !.err = "ErrPoolNotExists"]

\* Keeper.SwapExecution on the stored orders: what it returns or how it
\* panics, what it has stored, and every intermediate value it computed
SwapExecution(store, currentHeight, found, rx, ry, bankOk) ==
    IF Len(GetAllNotProcessedPoolBatchSwapMsgStates(store)) = 0
    THEN NoExecution(store, rx, ry)
    ELSE IF ~found
    THEN PoolNotFound(store, rx, ry)
    ELSE ExecutedStep(store, GetAllNotProcessedPoolBatchSwapMsgStates(store),
            ValidateStateAndExpireOrders(
                SetExecuted(ByIndex(GetAllNotProcessedPoolBatchSwapMsgStates(store))),
                currentHeight, FALSE),
            currentHeight, rx, ry, bankOk)

\* ------------------------------------------------------------- block hooks
\* Keeper.DeleteAndInitPoolBatch: orders to be deleted or expired are deleted,
\* the others are reinitialized for the next batch
DeleteAndInitPoolBatch(store, currentHeight) ==
    LET live == SelectSeq(store, LAMBDA o : ~(o.toBeDeleted \/ o.expiry <= currentHeight))
    IN  [k \in 1..Len(live) |-> [live[k] EXCEPT !.executed = FALSE, !.succeeded = FALSE]]

\* the pool batch: its index and its executed flag
PoolBatch(index, executed) == [index |-> index, executed |-> executed]

\* a fresh batch is opened whenever no live order is left, executed or not
InitNextPoolBatch_Always(batch, live) ==
    IF live = <<>> THEN PoolBatch(batch.index + 1, FALSE) ELSE batch

\* an executed batch with no live order left is followed by a fresh batch
InitNextPoolBatch(batch, live) ==
    IF live = <<>>
    THEN PoolBatch(IF batch.executed THEN batch.index + 1 ELSE batch.index, FALSE)
    ELSE batch

Genesis ==
    {<<>>} \cup {<<NewSwapMsgState(1, d, a, p, MaxHeight + 1)>> :
                    d \in {DirectionXtoY, DirectionYtoX}, a \in {MaxAmt}, p \in {DecUnit}}

Init ==
    /\ height = 1
    /\ phase = "open"
    /\ poolExists \in BOOLEAN
    /\ \E r \in InitReserves : reserveX = r[1] /\ reserveY = r[2]
    /\ orders \in (IF poolExists THEN {<<>>} ELSE Genesis)
    /\ nextIndex = Len(orders) + 1
    /\ batchIndex = 1
    /\ batchExecuted = FALSE
    /\ last = NoExecution(orders, reserveX, reserveY)

\* the swap message handler: a new order joins the batch of an existing pool
SubmitSwap(dir, amt, price, expiry) ==
    /\ phase = "open"
    /\ poolExists
    /\ nextIndex <= MaxOrders
    /\ orders' = Append(orders, NewSwapMsgState(nextIndex, dir, amt, price, expiry))
    /\ nextIndex' = nextIndex + 1
    /\ UNCHANGED <<height, phase, poolExists, reserveX, reserveY, batchIndex,
                   batchExecuted, last>>

\* EndBlocker: the batch is executed; a panic halts the chain with nothing stored
EndBlocker(bankOk) ==
    /\ phase = "open"
    /\ LET r == SwapExecution(orders, height, poolExists, reserveX, reserveY, bankOk)
       IN  /\ last' = r
           /\ orders' = r.store
           /\ reserveX' = r.reserveX
           /\ reserveY' = r.reserveY
           /\ phase' = IF r.kind = "panic" THEN "halt" ELSE "begin"
           /\ batchExecuted' = (batchExecuted \/ (r.kind \notin {"panic", "empty", "nopool"}))
    /\ UNCHANGED <<height, poolExists, nextIndex, batchIndex>>

\* BeginBlocker of the next block
BeginBlocker ==
    /\ phase = "begin"
    /\ height < MaxHeight
    /\ height' = height + 1
    /\ phase' = "open"
    /\ orders' = DeleteAndInitPoolBatch(orders, height + 1)
    /\ batchIndex' = InitNextPoolBatch(PoolBatch(batchIndex, batchExecuted), orders').index
    /\ batchExecuted' = InitNextPoolBatch(PoolBatch(batchIndex, batchExecuted), orders').executed
    /\ UNCHANGED <<poolExists, reserveX, reserveY, nextIndex, last>>

Next ==
    \/ \E dir \in {DirectionXtoY, DirectionYtoX}, amt \in OfferAmounts, price \in OrderPrices,
          life \in {0, MaxHeight} :
            SubmitSwap(dir, amt, price, height + life)
    \/ \E bankOk \in BOOLEAN : EndBlocker(bankOk)
    \/ BeginBlocker

Spec == Init /\ [][Next]_vars

\* ------------------------------------------------- UpdateState on its own
\* Keeper.UpdateState is exported: it is applied here to one fresh order and
\* to match results of any transacted amount and fee, batch after batch.
HalfCoin == DecUnit \div 2
TransactedAmounts == {k * HalfCoin : k \in 0..(2 * MaxOffer)}

InitUS ==
    /\ height = 1
    /\ phase = "open"
    /\ poolExists = TRUE
    /\ reserveX = MaxOffer /\ reserveY = MaxOffer
    /\ \E dir \in {DirectionXtoY, DirectionYtoX}, amt \in 1..MaxOffer :
            orders = <<NewSwapMsgState(1, dir, amt, DecUnit, MaxHeight + 1)>>
    /\ nextIndex = 2
    /\ batchIndex = 1
    /\ batchExecuted = FALSE
    /\ last = NoExecution(orders, reserveX, reserveY)

\* the match result of order o for the transacted amount T and the fee fee
MatchResultOf(o, T, fee) ==
    [MatchResult(o, o.dir, DecUnit, T, FALSE) EXCEPT !.OfferCoinFeeAmt = fee]

\* the outcome of one UpdateState call on the orders ms
UpdateStateOutcome(store, ms, mrX, mrY, us) ==
    [NoExecution(store, reserveX, reserveY) EXCEPT
        !.kind = IF us.panic # "" THEN "panic" ELSE "settled",
        !.panic = us.panic, !.count = Len(store),
        !.pre = ms, !.X = ToDec(reserveX), !.Y = ToDec(reserveY),
        !.matchResultXtoY = mrX, !.matchResultYtoX = mrY,
        !.us = us, !.post = us.ms,
        !.store = IF us.panic # "" THEN store ELSE Stored(store, us.ms)]

\* UpdateState applied to the order the previous batch left over, as long as
\* the order has an amount remaining
UpdateStateCall(T, fee) ==
    /\ phase = "open"
    /\ DeleteAndInitPoolBatch(orders, height) # <<>>
    /\ DeleteAndInitPoolBatch(orders, height)[1].remaining > 0
    /\ LET live == DeleteAndInitPoolBatch(orders, height)
           ms == ByIndex(live)
           mrX == IF live[1].dir = DirectionXtoY THEN <<MatchResultOf(live[1], T, fee)>> ELSE <<>>
           mrY == IF live[1].dir = DirectionYtoX THEN <<MatchResultOf(live[1], T, fee)>> ELSE <<>>
           book == MakeOrderMap(live, FALSE)
           r == UpdateStateOutcome(live, ms, mrX, mrY,
                    UpdateState(ToDec(reserveX), ToDec(reserveY), book.XtoY, book.YtoX,
                                ms, mrX, mrY))
       IN  /\ last' = r
           /\ orders' = r.store
           /\ phase' = IF r.kind = "panic" THEN "halt" ELSE "open"
    /\ UNCHANGED <<height, poolExists, reserveX, reserveY, nextIndex, batchIndex, batchExecuted>>

NextUS ==
    \E T \in TransactedAmounts, charged \in BOOLEAN :
        UpdateStateCall(T, IF charged THEN Mul(T, HalfFeeRate) ELSE 0)

SpecUS == InitUS /\ [][NextUS]_vars

\* ---------------------------------------------------------------- SpecFills
\* types.FindOrderMatch is not part of the source: here SwapExecution runs on
\* two fresh orders with match results that are any fills of these orders,
\* so that every check between UpdateState and the transfer can fail.
FillAmounts == {HalfCoin, OneDec, 2 * OneDec}

\* the match results FindOrderMatch may return for direction dir
FillsOf(store, dir, swapPrice) ==
    {MatchResult(o, dir, swapPrice, T, FALSE) :
        o \in {q \in Range(store) : q.dir = dir}, T \in FillAmounts}

\* the lists of at most two match results out of S
FillLists(S) == {<<>>} \cup {<<a>> : a \in S} \cup {<<a, b>> : a \in S, b \in S}

InitFills ==
    /\ height = 1
    /\ phase = "open"
    /\ poolExists = TRUE
    /\ \E r \in InitReserves : reserveX = r[1] /\ reserveY = r[2]
    /\ \E d1, d2 \in {DirectionXtoY, DirectionYtoX}, a1, a2 \in OfferAmounts,
          p1, p2 \in OrderPrices :
            orders = <<NewSwapMsgState(1, d1, a1, p1, MaxHeight + 1),
                       NewSwapMsgState(2, d2, a2, p2, MaxHeight + 1)>>
    /\ nextIndex = 3
    /\ batchIndex = 1
    /\ batchExecuted = FALSE
    /\ last = NoExecution(orders, reserveX, reserveY)

\* lines 49-61 with the given match results at the pool price
FilledStep(store, swapMsgStates, ms1, book, X, Y, mrX, mrY, currentHeight, bankOk) ==
    CountStep(store, swapMsgStates, book,
        [NoExecution(Stored(store, ms1), TruncateInt(X), TruncateInt(Y)) EXCEPT
            !.kind = "nomatch", !.count = Len(swapMsgStates),
            !.pre = ms1, !.X = X, !.Y = Y,
            !.currentPoolPrice = Quo(X, Y),
            !.result = [NoResult EXCEPT !.MatchType = ExactMatch, !.SwapPrice = Quo(X, Y)],
            !.matchResultXtoY = mrX,
            !.matchResultYtoX = mrY],
        currentHeight, bankOk)

\* Keeper.SwapExecution of a batch with orders in an existing pool
SwapExecutionOfFills(store, currentHeight, rx, ry, mrX, mrY, bankOk) ==
    FilledStep(store, GetAllNotProcessedPoolBatchSwapMsgStates(store),
        ValidateStateAndExpireOrders(
            SetExecuted(ByIndex(GetAllNotProcessedPoolBatchSwapMsgStates(store))),
            currentHeight, FALSE),
        MakeOrderMap(Stored(GetAllNotProcessedPoolBatchSwapMsgStates(store),
            ValidateStateAndExpireOrders(
                SetExecuted(ByIndex(GetAllNotProcessedPoolBatchSwapMsgStates(store))),
                currentHeight, FALSE)), FALSE),
        ToDec(rx), ToDec(ry), mrX, mrY, currentHeight, bankOk)

\* EndBlocker executing the batch with the match results mrX and mrY
ExecuteFills(mrX, mrY, bankOk) ==
    /\ phase = "open"
    /\ last' = SwapExecutionOfFills(orders, height, reserveX, reserveY, mrX, mrY, bankOk)
    /\ orders' = last'.store
    /\ reserveX' = last'.reserveX
    /\ reserveY' = last'.reserveY
    /\ phase' = IF last'.kind = "panic" THEN "halt" ELSE "begin"
    /\ batchExecuted' = (last'.kind # "panic")
    /\ UNCHANGED <<height, poolExists, nextIndex, batchIndex>>

NextFills ==
    /\ phase = "open"
    /\ \E mrX \in FillLists(FillsOf(orders, DirectionXtoY,
                                    Quo(ToDec(reserveX), ToDec(reserveY)))),
          mrY \in FillLists(FillsOf(orders, DirectionYtoX,
                                    Quo(ToDec(reserveX), ToDec(reserveY)))),
          bankOk \in BOOLEAN :
           ExecuteFills(mrX, mrY, bankOk)

SpecFills == InitFills /\ [][NextFills]_vars

\* ------------------------------------------------------------------ claims
\* the match results of the latest execution, both directions
MatchResults == last.matchResultXtoY \o last.matchResultYtoX

Conserved(o) == o.remaining + o.exchanged <= o.offer

\* C1: order conservation.  Every stored order, and every order as UpdateState
\* left it in the latest settled batch, has remaining + exchanged <= the
\* original offer amount.
C1_OrderConservation ==
    /\ \A k \in 1..Len(orders) : Conserved(orders[k])
    /\ last.kind = "settled" => \A i \in DOMAIN last.us.ms : Conserved(last.us.ms[i])

\* an order filled in an earlier batch is filled again, and the latest batch
\* took a fractional branch as well as a full or off-by-one branch
C1_Witness ==
    /\ last.kind = "settled"
    /\ \E x \in Range(last.us.branches) :
            last.pre[x.idx].exchanged > 0 /\ last.us.ms[x.idx].exchanged > last.pre[x.idx].exchanged
    /\ \E x, y \in Range(last.us.branches) : x.branch = "fractional" /\ y.branch # "fractional"

\* C2: single price.  Every match result of a batch, in either direction, is
\* computed at the swap price of the batch result.
C2_SinglePrice ==
    last.kind \in {"settled", "nomatch", "panic"} =>
        \A m \in Range(MatchResults) :
            /\ m.swapPrice = last.result.SwapPrice
            /\ m.ExchangedDemandCoinAmt =
                   IF m.dir = DirectionXtoY
                   THEN Quo(m.TransactedCoinAmt, last.result.SwapPrice)
                   ELSE Mul(m.TransactedCoinAmt, last.result.SwapPrice)

\* a settled batch with fills in both directions at a swap price that is not
\* the pool price
C2_Witness ==
    /\ last.kind = "settled"
    /\ last.matchResultXtoY # <<>> /\ last.matchResultYtoX # <<>>
    /\ last.result.SwapPrice # last.currentPoolPrice

\* C3: limit respect.  An order filled in direction XtoY has an order price
\* >= the swap price, one filled in direction YtoX an order price <= it.
C3_LimitRespect ==
    last.kind \in {"settled", "nomatch", "panic"} =>
        /\ \A m \in Range(last.matchResultXtoY) :
                last.pre[m.idx].dir = DirectionXtoY
                /\ last.pre[m.idx].price >= last.result.SwapPrice
        /\ \A m \in Range(last.matchResultYtoX) :
                last.pre[m.idx].dir = DirectionYtoX
                /\ last.pre[m.idx].price <= last.result.SwapPrice

\* a settled batch filled an XtoY order and left another XtoY order, whose
\* order price is below the swap price, without a match result
C3_Witness ==
    /\ last.kind = "settled"
    /\ \E m \in Range(last.matchResultXtoY) : m.TransactedCoinAmt > 0
    /\ \E i \in DOMAIN last.pre :
            /\ last.pre[i].dir = DirectionXtoY
            /\ last.pre[i].price < last.result.SwapPrice
            /\ \A m \in Range(MatchResults) : m.idx # i

ResultOf(i) == CHOOSE m \in Range(MatchResults) : m.idx = i

\* the latest execution ran UpdateState to its end
Updated == last.kind = "settled"

\* C5: fully-filled post-condition.  Every order the full-match or the
\* off-by-one branch marks to be deleted has nothing remaining and a reserved
\* fee of at most one unit; no stored order is to be deleted with an amount
\* remaining or a fee of two or more.
C5_FullyFilled ==
    /\ \A x \in Range(last.us.branches) :
            x.branch \in {"full", "offbyone"} =>
                /\ last.us.ms[x.idx].toBeDeleted
                /\ last.us.ms[x.idx].remaining = 0
                /\ last.us.ms[x.idx].fee <= 1
    /\ \A k \in 1..Len(orders) :
            orders[k].toBeDeleted => orders[k].remaining = 0 /\ orders[k].fee <= 1

\* an order that was filled before is settled by the off-by-one branch and is
\* left with a reserved fee of one unit
C5_Witness ==
    /\ Updated
    /\ \E x \in Range(last.us.branches) :
            /\ x.branch = "offbyone"
            /\ last.pre[x.idx].exchanged > 0
            /\ last.us.ms[x.idx].toBeDeleted
            /\ last.us.ms[x.idx].fee = 1

C7_SucceededIffTraded ==
    Updated =>
        \A i \in DOMAIN last.us.ms :
            last.us.ms[i].succeeded <=> last.us.ms[i].exchanged > last.pre[i].exchanged

\* the orders the latest batch settled by the fractional branch and that the
\* execution did not mark to be deleted afterwards
CarriedOver ==
    IF Updated
    THEN {x.idx : x \in {y \in Range(last.us.branches) :
                            y.branch = "fractional" /\ ~last.post[y.idx].toBeDeleted}}
    ELSE {}

\* the amounts of an order after UpdateState, given its truncated fill
FilledBy(before, after, m) ==
    /\ after.exchanged = before.exchanged + TruncateInt(m.TransactedCoinAmt)
    /\ after.remaining = before.remaining - TruncateInt(m.TransactedCoinAmt)
    /\ after.fee = CoinSafeSubAmount(before.fee, TruncateInt(m.OfferCoinFeeAmt))

\* a step of BeginBlocker, a step of EndBlocker
IsBeginBlock == phase = "begin" /\ phase' = "open"
IsEndBlock == phase = "open" /\ phase' # "open"

\* the next begin-block keeps order i with its amounts, ready for the next batch
KeptByBeginBlock(i) ==
    \E k \in 1..Len(orders') :
        /\ orders'[k].idx = i
        /\ orders'[k].remaining = last.us.ms[i].remaining
        /\ orders'[k].exchanged = last.us.ms[i].exchanged
        /\ ~orders'[k].executed /\ ~orders'[k].succeeded /\ ~orders'[k].toBeDeleted

\* the next batch collects order i with the remaining amount it was left with
TakesPart(i) ==
    /\ last'.kind \notin {"empty", "nopool"}
    /\ i \in DOMAIN last'.pre
    /\ last'.pre[i].remaining = last.us.ms[i].remaining

StrictlyPartial ==
    IF Updated
    THEN {m.idx : m \in {r \in Range(MatchResults) :
                            /\ r.TransactedCoinAmt > 0
                            /\ r.TransactedCoinAmt < ToDec(last.pre[r.idx].remaining)}}
    ELSE {}

FoundNoMatch == IsEndBlock /\ last'.pre # <<>> /\ last'.result.MatchType = NoMatch

C10_TransferFailureFatal ==
    [][IsEndBlock /\ last'.transferErr # "" =>
        /\ last'.kind = "panic"
        /\ last'.panic = last'.transferErr
        /\ last'.count = 0 /\ last'.err = ""
        /\ phase' = "halt"
        /\ orders' = orders
        /\ reserveX' = reserveX /\ reserveY' = reserveY]_vars

\* the bank failed after UpdateState had filled an order, and the chain halted
C10_Witness ==
    /\ last.transferErr # ""
    /\ phase = "halt"
    /\ \E i \in DOMAIN last.us.ms : last.us.ms[i].exchanged > last.pre[i].exchanged

\* every order in which the sequence l can be presented
Presentations(l) ==
    {[k \in 1..Len(l) |-> l[f[k]]] :
        f \in {g \in [1..Len(l) -> 1..Len(l)] : \A a, b \in 1..Len(l) : a # b => g[a] # g[b]}}

\* what an execution returns and stores: the outcome, the reserves, the order
\* states, the pool deltas and the decimal errors
ExecutionOutputs(r) ==
    <<r.kind, r.count, r.err, r.panic, r.reserveX, r.reserveY, Range(r.store),
      r.us.ms, r.us.X, r.us.Y, r.us.poolXdelta, r.us.poolYdelta,
      r.us.decimalErrorX, r.us.decimalErrorY>>

\* what UpdateState returns, but for the order of its two lists
UpdateOutputs(u) ==
    <<u.ms, u.X, u.Y, u.poolXdelta, u.poolYdelta, u.decimalErrorX, u.decimalErrorY,
      u.fractionalCntX, u.fractionalCntY, u.panic>>

\* C11: determinism.  The batch of the stored orders gives the same order
\* states, reserves, pool deltas and decimal errors in whatever order the
\* orders are presented to SwapExecution, and UpdateState gives the same for
\* the latest batch in whatever order its lists and match results are given.
C11_Determinism ==
    [][IsEndBlock =>
        /\ \A l \in Presentations(orders) :
                ExecutionOutputs(SwapExecution(l, height, poolExists, reserveX, reserveY,
                                               last'.transferErr = ""))
                = ExecutionOutputs(last')
        /\ Updated' =>
                \A x \in Presentations(last'.us.XtoY), y \in Presentations(last'.us.YtoX),
                   mx \in Presentations(last'.matchResultXtoY),
                   my \in Presentations(last'.matchResultYtoX) :
                    UpdateOutputs(UpdateState(last'.X, last'.Y, x, y, last'.pre, mx, my))
                    = UpdateOutputs(last'.us)]_vars

\* the latest batch filled two orders of one direction and one order price by
\* different amounts
C11_Witness ==
    /\ Updated
    /\ \E m, n \in Range(MatchResults) :
            /\ m.idx # n.idx /\ m.dir = n.dir /\ m.orderPrice = n.orderPrice
            /\ m.TransactedCoinAmt # n.TransactedCoinAmt
            /\ m.TransactedCoinAmt > 0 /\ n.TransactedCoinAmt > 0

\* the orders and the pool batch after delete-and-init ran at height h on the
\* orders store and the pool batch batch
DeleteAndInit(store, batch, h) ==
    <<DeleteAndInitPoolBatch(store, h), InitNextPoolBatch(batch, DeleteAndInitPoolBatch(store, h))>>

Matched == last.kind \in {"nomatch", "settled", "panic"}

\* C13: every order collected for a batch whose pool exists is executed
\* before price discovery starts, and is stored as executed when the
\* execution returns, matched or not; a succeeded order is always executed.
C13_ExecutedBeforeMatching ==
    /\ Matched => \A i \in DOMAIN last.pre : last.pre[i].executed
    /\ Matched /\ last.kind # "panic" /\ phase = "begin" =>
            \A i \in DOMAIN last.pre :
                \E k \in 1..Len(orders) : orders[k].idx = i /\ orders[k].executed
    /\ \A k \in 1..Len(orders) : orders[k].succeeded => orders[k].executed
    /\ \A i \in DOMAIN last.us.ms : last.us.ms[i].succeeded => last.us.ms[i].executed

\* a settled batch has just returned: one collected order was filled, another
\* got no match result, and both are stored as executed
C13_Witness ==
    /\ Updated /\ phase = "begin"
    /\ \E k, n \in 1..Len(orders) :
            /\ orders[k].executed /\ orders[k].succeeded
            /\ orders[n].executed /\ ~orders[n].succeeded
            /\ \A m \in Range(MatchResults) : m.idx # orders[n].idx

RECURSIVE SumTransacted(_)
\* sum of the transacted amounts of a list of match results
SumTransacted(results) ==
    IF results = <<>> THEN 0
    ELSE Head(results).TransactedCoinAmt + SumTransacted(Tail(results))

RECURSIVE SumDemand(_)
\* sum of the exchanged demand amounts of a list of match results
SumDemand(results) ==
    IF results = <<>> THEN 0
    ELSE Head(results).ExchangedDemandCoinAmt + SumDemand(Tail(results))

\* number of fills of direction dir the latest UpdateState settled by the
\* off-by-one branch
OffByOneFills(dir) ==
    Cardinality({k \in 1..Len(last.us.branches) :
        /\ last.us.branches[k].branch = "offbyone"
        /\ last.pre[last.us.branches[k].idx].dir = dir})

\* the latest execution called UpdateState, which returned
UpdateReturned == last.kind \in {"settled", "panic"} /\ last.us.panic = ""

\* C14: the reserves UpdateState returns are X plus the transacted amounts of
\* the XtoY fills minus the demand amounts of the YtoX fills plus the X decimal
\* error, and symmetrically for Y; each decimal error is the number of fills
\* of its direction settled by the off-by-one branch.
C14_ReserveUpdate ==
    UpdateReturned =>
        /\ last.us.X = last.X + SumTransacted(last.matchResultXtoY)
                        - SumDemand(last.matchResultYtoX) + last.us.decimalErrorX
        /\ last.us.Y = last.Y + SumTransacted(last.matchResultYtoX)
                        - SumDemand(last.matchResultXtoY) + last.us.decimalErrorY
        /\ last.us.decimalErrorX = ToDec(OffByOneFills(DirectionXtoY))
        /\ last.us.decimalErrorY = ToDec(OffByOneFills(DirectionYtoX))

\* UpdateState returned after fills in both directions, one of the YtoX fills
\* settled by the off-by-one branch
C14_Witness ==
    /\ UpdateReturned
    /\ OffByOneFills(DirectionYtoX) > 0
    /\ SumTransacted(last.matchResultYtoX) > 0
    /\ SumDemand(last.matchResultXtoY) > 0

\* the fills of the latest UpdateState call whose transacted amount is exactly
\* one coin less than what their order had remaining
OneLessFills ==
    {m \in Range(MatchResults) :
        ToDec(last.pre[m.idx].remaining) - m.TransactedCoinAmt = OneDec}

\* the decimal error and the pool delta of the offer side of direction dir
DecimalErrorOf(dir) ==
    IF dir = DirectionXtoY THEN last.us.decimalErrorX ELSE last.us.decimalErrorY
PoolDeltaOf(dir) ==
    IF dir = DirectionXtoY THEN last.us.poolXdelta ELSE last.us.poolYdelta

\* C15: UpdateState called with one fill whose transacted amount is exactly
\* one less than the order's remaining amount settles it like a full match: the exchanged amount grows
\* by the truncated transacted amount, the order is succeeded and to be
\* deleted with nothing remaining, one is added to the decimal error of its
\* offer side and so the whole remaining amount enters the pool delta; as in
\* a full match, the call aborts instead when a fee of two or more is left.
C15_OffByOne ==
    last.kind \in {"settled", "panic"} =>
        \A m \in OneLessFills :
            IF last.us.panic = ""
            THEN /\ last.us.ms[m.idx].exchanged =
                        last.pre[m.idx].exchanged + TruncateInt(m.TransactedCoinAmt)
                 /\ last.us.ms[m.idx].succeeded
                 /\ last.us.ms[m.idx].toBeDeleted
                 /\ last.us.ms[m.idx].remaining = 0
                 /\ DecimalErrorOf(last.pre[m.idx].dir) = OneDec
                 /\ PoolDeltaOf(last.pre[m.idx].dir) = ToDec(last.pre[m.idx].remaining)
            ELSE /\ last.us.panic = PanicMessage(last.pre[m.idx].dir, "offbyone")
                 /\ CoinSafeSubAmount(last.pre[m.idx].fee,
                                      TruncateInt(m.OfferCoinFeeAmt)) >= 2

\* an order with more than one coin remaining was filled for one coin less:
\* it is left with nothing remaining and the decimal error is one
C15_Witness ==
    /\ Updated
    /\ \E m \in OneLessFills :
            /\ m.TransactedCoinAmt > 0
            /\ last.pre[m.idx].remaining < last.pre[m.idx].offer
            /\ last.us.ms[m.idx].remaining = 0
            /\ DecimalErrorOf(last.pre[m.idx].dir) = OneDec

\* the latest execution called the bank to move the coins
ReachedTransfer == last.kind = "settled" \/ last.transferErr # ""

\* a msg index is the target of two of the latest execution's match results
Duplicated ==
    \E a, b \in 1..Len(MatchResults) : a # b /\ MatchResults[a].idx = MatchResults[b].idx

\* C16: in an execution that reaches the coin transfer no msg index is the
\* target of more than one match result of the two directions together; an
\* execution with a duplicated msg index panics without calling the bank and
\* leaves orders and reserves as they were.
C16_NoDuplicateFills ==
    [][/\ ReachedTransfer' => ~Duplicated'
       /\ Duplicated' =>
            /\ last'.kind = "panic" /\ last'.transferErr = ""
            /\ orders' = orders /\ reserveX' = reserveX /\ reserveY' = reserveY]_vars

\* both outcomes were seen: here an order with two match results passed
\* UpdateState and the order book check and the execution then panicked on it
C16_Witness ==
    /\ last.kind = "panic" /\ last.panic = "duplicated match order"
    /\ Duplicated
    /\ last.us.panic = ""

\* the orders the latest UpdateState call left unmatched keep their limits on
\* their side of the price X'/Y' of the reserves it returned
PostBookValid ==
    \A i \in DOMAIN last.us.ms :
        NotMatched(last.us.ms[i]) =>
            IF last.us.ms[i].dir = DirectionXtoY
            THEN last.us.ms[i].price <= Quo(last.us.X, last.us.Y)
            ELSE last.us.ms[i].price >= Quo(last.us.X, last.us.Y)

\* C17: once UpdateState has returned reserves X', Y', the coin transfer is
\* reached only if the book of the unmatched post-settlement orders is valid
\* at last price X'/Y'; an execution whose book is invalid panics without
\* calling the bank and leaves orders and reserves as they were.
C17_ValidBookBeforeTransfer ==
    [][UpdateReturned' /\ last'.us.Y > 0 =>
        /\ last'.lastPrice = Quo(last'.us.X, last'.us.Y)
        /\ ReachedTransfer' => PostBookValid'
        /\ ~PostBookValid' =>
            /\ last'.kind = "panic" /\ last'.transferErr = ""
            /\ orders' = orders /\ reserveX' = reserveX /\ reserveY' = reserveY]_vars

\* both outcomes were seen: here UpdateState filled one order, the other was
\* left in the book on the wrong side of the new price and the execution
\* panicked on the book
C17_Witness ==
    /\ last.kind = "panic" /\ last.panic = "ErrOrderBookInvalidity"
    /\ UpdateReturned /\ last.us.Y > 0
    /\ \E i \in DOMAIN last.us.ms : last.us.ms[i].succeeded
    /\ ~PostBookValid
    /\ ~Duplicated

\* the stored orders and the reserves are left as they were
StateUnchanged == orders' = orders /\ reserveX' = reserveX /\ reserveY' = reserveY

\* C18: SwapExecution of a batch with unprocessed orders whose pool does not
\* exist returns count 0 and the pool-not-exists error, with no order modified
\* (none becomes executed) and no reserve changed; of a batch without
\* unprocessed orders (an empty batch, or one executed already) it returns
\* count 0 and no error and changes nothing.
C18_EarlyExits ==
    [][/\ GetAllNotProcessedPoolBatchSwapMsgStates(orders) = <<>> =>
            \A found, bankOk \in BOOLEAN :
                SwapExecution(orders, height, found, reserveX, reserveY, bankOk)
                    = NoExecution(orders, reserveX, reserveY)
       /\ IsEndBlock =>
           /\ GetAllNotProcessedPoolBatchSwapMsgStates(orders) # <<>> /\ ~poolExists =>
                   /\ last'.count = 0 /\ last'.err = "ErrPoolNotExists" /\ last'.panic = ""
                   /\ StateUnchanged
                   /\ \A k \in 1..Len(orders') : ~orders'[k].executed
           /\ GetAllNotProcessedPoolBatchSwapMsgStates(orders) = <<>> =>
                   /\ last'.count = 0 /\ last'.err = "" /\ last'.panic = ""
                   /\ StateUnchanged]_vars

\* in its second block a batch with an unprocessed order was executed for a
\* pool that does not exist
C18_Witness ==
    /\ phase = "begin" /\ height > 1
    /\ ~poolExists
    /\ last.kind = "nopool" /\ last.err = "ErrPoolNotExists"
    /\ orders # <<>>

\* the msg indexes the latest match results target
Targets == {m.idx : m \in Range(MatchResults)}

\* the fields of an order that settlement writes
Settlement(o) == <<o.remaining, o.exchanged, o.fee, o.succeeded, o.toBeDeleted>>

\* C19: UpdateState changes the remaining, exchanged and reserved fee
\* amounts and the succeeded and to-be-deleted flags only of orders that are
\* the target of a match result: every order given to it in XtoY or YtoX
\* without a match result comes back with these fields as they were.
C19_SettlementFrame ==
    UpdateReturned =>
        /\ DOMAIN last.us.ms = DOMAIN last.pre
        /\ Range(last.us.XtoY) \cup Range(last.us.YtoX) = DOMAIN last.pre
        /\ \A i \in DOMAIN last.pre :
                \/ i \in Targets
                \/ Settlement(last.us.ms[i]) = Settlement(last.pre[i])

\* UpdateState settled a match result of one order and was given another
\* order of the same direction that no match result targets
C19_Witness ==
    /\ UpdateReturned
    /\ \E i, j \in DOMAIN last.pre :
            /\ i \in Targets /\ Settlement(last.us.ms[i]) # Settlement(last.pre[i])
            /\ j \notin Targets /\ last.pre[j].dir = last.pre[i].dir

\* order n is order o one step later, its amounts moved in the allowed way
MonotoneStep(o, n) ==
    /\ n.remaining <= o.remaining /\ n.remaining >= 0
    /\ n.fee <= o.fee /\ n.fee >= 0
    /\ n.exchanged >= o.exchanged

\* C20: across batch executions the remaining amount of an order never
\* increases and never becomes negative, its reserved fee never increases and
\* never becomes negative, and its exchanged amount never decreases; the
\* same holds between the orders given to UpdateState and those it returns.
C20_MonotoneAmounts ==
    [][/\ \A k \in 1..Len(orders), n \in 1..Len(orders') :
            orders[k].idx = orders'[n].idx => MonotoneStep(orders[k], orders'[n])
       /\ \A i \in DOMAIN last'.us.ms : MonotoneStep(last'.pre[i], last'.us.ms[i])]_vars

\* an order filled in an earlier call was filled for more than it had
\* remaining: the remaining amount stopped at zero
C20_Witness ==
    /\ Updated
    /\ \E m \in Range(MatchResults) :
            /\ last.pre[m.idx].exchanged > 0
            /\ TruncateInt(m.TransactedCoinAmt) > last.pre[m.idx].remaining
            /\ last.us.ms[m.idx].remaining = 0
            /\ \E k \in 1..Len(orders) : orders[k].idx = m.idx /\ orders[k].remaining = 0

====
